---- MODULE Spec2Model ----
(***************************************************************************)
(* Model of the DirecTV set-top-box client (package directv, directv.go): *)
(* the ten capability operations of SetTopBox, the shared request         *)
(* primitive they funnel through, and the device's answers.               *)
(*                                                                         *)
(* Strings that travel in the URL are sequences of byte codes, so that    *)
(* query escaping and parsing are computed, not assumed.  Device messages *)
(* and payload values are opaque and are TLA+ strings / small records.    *)
(***************************************************************************)
EXTENDS Integers, Sequences, FiniteSets, TLC

(***************************************************************************)
(* Bounds of the model.                                                    *)
(***************************************************************************)
\* longest string argument a caller passes (bytes)
MaxLen == 1
\* number of goroutines calling the client at the same time (SpecConc)
NumCallers == 2
\* most locations a getLocations body lists
MaxLocations == 2

(***************************************************************************)
(* Bytes and strings.                                                      *)
(***************************************************************************)
\* bytes the callers' string arguments are built from: a & % space
ArgBytes == {97, 38, 37, 32}

RECURSIVE StrsOfLen(_)
StrsOfLen(n) ==
    IF n = 0 THEN {<<>>}
    ELSE {Append(s, b) : s \in StrsOfLen(n - 1), b \in ArgBytes}

\* every string argument of at most MaxLen bytes
ArgStrings == UNION {StrsOfLen(n) : n \in 0..MaxLen}

\* the names of the query parameters, as the bytes the code writes
KeyBytes(k) ==
    CASE k = "clientAddr" -> <<99, 108, 105, 101, 110, 116, 65, 100, 100, 114>>
      [] k = "cmd"        -> <<99, 109, 100>>
      [] k = "hold"       -> <<104, 111, 108, 100>>
      [] k = "key"        -> <<107, 101, 121>>
      [] k = "major"      -> <<109, 97, 106, 111, 114>>
      [] k = "minor"      -> <<109, 105, 110, 111, 114>>
      [] k = "time"       -> <<116, 105, 109, 101>>

\* strconv.FormatInt(n, 10): the decimal digits of n, '-' first when negative
RECURSIVE FormatNat(_)
FormatNat(n) ==
    IF n < 10 THEN <<48 + n>>
    ELSE Append(FormatNat(n \div 10), 48 + (n % 10))

FormatInt(n) == IF n < 0 THEN <<45>> \o FormatNat(0 - n) ELSE FormatNat(n)

(***************************************************************************)
(* url.Values.Encode, as request uses it to build RawQuery.                *)
(***************************************************************************)
\* bytes QueryEscape leaves alone: letters, digits, - _ . ~
Unreserved(b) ==
    \/ b \in 97..122
    \/ b \in 65..90
    \/ b \in 48..57
    \/ b \in {45, 95, 46, 126}

\* "0123456789ABCDEF"[n]
UpperHex(n) == IF n < 10 THEN 48 + n ELSE 55 + n

EscapeByte(b) ==
    IF Unreserved(b) THEN <<b>>
    ELSE IF b = 32 THEN <<43>>
    ELSE <<37, UpperHex(b \div 16), UpperHex(b % 16)>>

\* QueryEscape that escapes nothing
QueryEscapeNone(s) == s

RECURSIVE QueryEscape(_)
QueryEscape(s) ==
    IF s = <<>> THEN <<>>
    ELSE EscapeByte(Head(s)) \o QueryEscape(Tail(s))

\* byte-wise s < t, the order sort.Strings puts the keys in
RECURSIVE BytesLess(_, _)
BytesLess(s, t) ==
    IF t = <<>> THEN FALSE
    ELSE IF s = <<>> THEN TRUE
    ELSE IF Head(s) # Head(t) THEN Head(s) < Head(t)
    ELSE BytesLess(Tail(s), Tail(t))

\* the keys of a parameter map in sorted order
RECURSIVE SortedKeys(_)
SortedKeys(ks) ==
    IF ks = {} THEN <<>>
    ELSE LET least == CHOOSE k \in ks :
                        \A o \in ks \ {k} : BytesLess(KeyBytes(k), KeyBytes(o))
         IN  <<least>> \o SortedKeys(ks \ {least})

RECURSIVE EncodePairs(_, _)
EncodePairs(keys, params) ==
    IF keys = <<>> THEN <<>>
    ELSE LET k    == Head(keys)
             pair == QueryEscape(KeyBytes(k)) \o <<61>> \o QueryEscape(params[k])
         IN  IF Len(keys) = 1 THEN pair
             ELSE pair \o <<38>> \o EncodePairs(Tail(keys), params)

\* values.Encode() of the values request adds, one per key of params
Encode(params) == EncodePairs(SortedKeys(DOMAIN params), params)

(***************************************************************************)
(* url.ParseQuery: what the device (or any reader) gets back from the      *)
(* RawQuery that request sends.                                            *)
(***************************************************************************)
IsHex(b) == b \in 48..57 \/ b \in 65..70 \/ b \in 97..102

UnHex(b) == IF b \in 48..57 THEN b - 48
            ELSE IF b \in 97..102 THEN b - 87
            ELSE b - 55

\* a '%' that two hex digits do not follow makes the piece unparsable
RECURSIVE EscapesOk(_)
EscapesOk(s) ==
    IF s = <<>> THEN TRUE
    ELSE IF Head(s) = 37
         THEN /\ Len(s) >= 3
              /\ IsHex(s[2])
              /\ IsHex(s[3])
              /\ EscapesOk(SubSeq(s, 4, Len(s)))
         ELSE EscapesOk(Tail(s))

RECURSIVE QueryUnescape(_)
QueryUnescape(s) ==
    IF s = <<>> THEN <<>>
    ELSE IF Head(s) = 37
         THEN <<UnHex(s[2]) * 16 + UnHex(s[3])>> \o QueryUnescape(SubSeq(s, 4, Len(s)))
    ELSE IF Head(s) = 43 THEN <<32>> \o QueryUnescape(Tail(s))
    ELSE <<Head(s)>> \o QueryUnescape(Tail(s))

\* index of the first byte b in s, 0 when there is none
RECURSIVE IndexByte(_, _)
IndexByte(s, b) ==
    IF s = <<>> THEN 0
    ELSE IF Head(s) = b THEN 1
    ELSE LET i == IndexByte(Tail(s), b) IN IF i = 0 THEN 0 ELSE i + 1

\* the pieces of q between '&'
RECURSIVE SplitAmp(_)
SplitAmp(q) ==
    LET i == IndexByte(q, 38)
    IN  IF i = 0 THEN <<q>>
        ELSE <<SubSeq(q, 1, i - 1)>> \o SplitAmp(SubSeq(q, i + 1, Len(q)))

\* one piece "k=v" as a <<key, value>> pair; {} when empty or unparsable
ParsePiece(p) ==
    LET i == IndexByte(p, 61)
        k == IF i = 0 THEN p ELSE SubSeq(p, 1, i - 1)
        v == IF i = 0 THEN <<>> ELSE SubSeq(p, i + 1, Len(p))
    IN  IF p = <<>> \/ 59 \in {p[j] : j \in 1..Len(p)} THEN {}
        ELSE IF ~EscapesOk(k) \/ ~EscapesOk(v) THEN {}
        ELSE {<<QueryUnescape(k), QueryUnescape(v)>>}

\* the set of <<key, value>> pairs a query string carries
ParseQuery(q) ==
    LET pieces == SplitAmp(q)
    IN  UNION {ParsePiece(pieces[j]) : j \in 1..Len(pieces)}

(***************************************************************************)
(* Data model: the response structs request decodes into.  A struct is a   *)
(* record whose fields carry the struct's json tags.                       *)
(***************************************************************************)
\* statusResponse{}
ZeroStatus == [code |-> 0, commandResult |-> 0, msg |-> "", query |-> ""]

\* CommandReturn{}
ZeroCommandReturn == [data |-> "", response |-> 0, value |-> 0]

\* var locationsRes getLocationsResponse
ZeroGetLocationsResponse == [locations |-> <<>>, status |-> ZeroStatus]

\* var serialNumResponse getSerialNumResponse
ZeroGetSerialNumResponse == [serialNum |-> "", status |-> ZeroStatus]

\* var versionResponse getVersionResponse
ZeroGetVersionResponse ==
    [accessCardId |-> "", receiverId |-> "", status |-> ZeroStatus,
     stbSoftwareVersion |-> "", systemTime |-> 0, version |-> ""]

\* var modeResponse modeResponse
ZeroModeResponse == [mode |-> 0, status |-> ZeroStatus]

\* var processKeyResponse processKeyResponse
ZeroProcessKeyResponse == [hold |-> "", key |-> "", status |-> ZeroStatus]

\* var response processCommandResponse
ZeroProcessCommandResponse ==
    [command |-> FALSE, param |-> FALSE, prefix |-> FALSE,
     return |-> ZeroCommandReturn, status |-> ZeroStatus]

\* var response ProgramStatusResponse
ZeroProgramStatusResponse ==
    [callsign |-> "", date |-> "", duration |-> 0, episodeTitle |-> "",
     isOffAir |-> FALSE, isPclocked |-> 0, isPpv |-> FALSE, isRecording |-> FALSE,
     isVod |-> FALSE, major |-> 0, minor |-> 0, offset |-> 0, programId |-> "",
     rating |-> "", startTime |-> 0, stationId |-> 0, status |-> ZeroStatus,
     title |-> ""]

\* var response tuneResponse
ZeroTuneResponse == [status |-> ZeroStatus]

\* var version Version / Version{}
ZeroVersion ==
    [AccessCardID |-> "", ReceiverID |-> "", STBSoftwareVersion |-> "",
     SystemTime |-> 0, Version |-> ""]

\* var commandResponse CommandResponse / CommandResponse{}
ZeroCommandResponse ==
    [Command |-> FALSE, Param |-> FALSE, Prefix |-> FALSE, Return |-> ZeroCommandReturn]

Ops ==
    {"IsConnected", "GetLocations", "GetSerialNum", "GetVersion", "GetMode",
     "ProcessKey", "ProcessCommand", "GetProgInfo", "GetTuned", "TuneToChannel"}

\* the operations whose Go signature has a clientAddr parameter
SelectorOps ==
    {"GetSerialNum", "GetMode", "ProcessKey", "GetProgInfo", "GetTuned", "TuneToChannel"}

\* the struct each operation declares and hands to request as targetStruct
ZeroTarget(op) ==
    CASE op \in {"IsConnected", "GetLocations"} -> ZeroGetLocationsResponse
      [] op = "GetSerialNum"                    -> ZeroGetSerialNumResponse
      [] op = "GetVersion"                      -> ZeroGetVersionResponse
      [] op = "GetMode"                         -> ZeroModeResponse
      [] op = "ProcessKey"                      -> ZeroProcessKeyResponse
      [] op = "ProcessCommand"                  -> ZeroProcessCommandResponse
      [] op \in {"GetProgInfo", "GetTuned"}     -> ZeroProgramStatusResponse
      [] op = "TuneToChannel"                   -> ZeroTuneResponse

\* the uri each operation passes to request
Path(op) ==
    CASE op \in {"IsConnected", "GetLocations"} -> "/info/getLocations"
      [] op = "GetSerialNum"                    -> "/info/getSerialNum"
      [] op = "GetVersion"                      -> "/info/getVersion"
      [] op = "GetMode"                         -> "/info/mode"
      [] op = "ProcessKey"                      -> "/remote/processKey"
      [] op = "ProcessCommand"                  -> "/serial/processCommand"
      [] op = "GetProgInfo"                     -> "/tv/getProgInfo"
      [] op = "GetTuned"                        -> "/tv/getTuned"
      [] op = "TuneToChannel"                   -> "/tv/tune"

(***************************************************************************)
(* Errors.  nil is NilErr; an error from http.Get keeps its cause; the two *)
(* errors.New values the package makes carry what they were made from.     *)
(***************************************************************************)
NilErr == [kind |-> "nil", code |-> 0, text |-> ""]

\* the error http.Get returns (a *url.Error) for a failed round trip
TransportErr(cause) == [kind |-> "transport", code |-> 0, text |-> cause]

\* errors.New("Expected Status Code 200, got " + strconv.FormatInt(code, 10))
StatusErr(code) ==
    [kind |-> "status", code |-> code, text |-> "Expected Status Code 200, got"]

\* errors.New(res.Status.Message)
MessageErr(msg) == [kind |-> "message", code |-> 0, text |-> msg]

(***************************************************************************)
(* Building the request: the params map of each operation and the URL.     *)
(***************************************************************************)
\* map[string]string{} / nil
NoParams == [k \in {} |-> <<>>]

\* params[k] = v
Put(params, k, v) ==
    [x \in DOMAIN params \cup {k} |-> IF x = k THEN v ELSE params[x]]

\* the parameter is set without looking at its length
PutAlways(params, k, v) == Put(params, k, v)

\* if len(v) != 0 { params[k] = v }
PutIfSet(params, k, v) == IF Len(v) # 0 THEN Put(params, k, v) ELSE params

\* The params each operation builds from its arguments.  a.clientAddr is the
\* tuner the caller wants addressed; only the operations of SelectorOps have
\* a parameter to receive it.
Params(op, a) ==
    CASE op \in {"IsConnected", "GetLocations", "GetVersion"} -> NoParams
      [] op \in {"GetSerialNum", "GetMode", "GetTuned"} ->
            PutIfSet(NoParams, "clientAddr", a.clientAddr)
      [] op = "ProcessKey" ->
            PutIfSet(PutIfSet(Put(NoParams, "key", a.key), "hold", a.hold),
                     "clientAddr", a.clientAddr)
      [] op = "ProcessCommand" -> Put(NoParams, "cmd", a.cmd)
      [] op = "GetProgInfo" ->
            LET base == Put(Put(NoParams, "major", FormatInt(a.major)),
                            "minor", FormatInt(a.minor))
                timed == IF a.time # 0 THEN Put(base, "time", FormatInt(a.time))
                         ELSE base
            IN  PutIfSet(timed, "clientAddr", a.clientAddr)
      [] op = "TuneToChannel" ->
            PutIfSet(Put(NoParams, "major", a.channel), "clientAddr", a.clientAddr)

\* NewSetTopBox(ip): the default port
DefaultPort == 8080

NewSetTopBox(ip) == [IPAddress |-> ip, Port |-> DefaultPort]

\* requestURL of request: scheme http, host "ip:port", the path, the query
RequestURL(box, op, a) ==
    [Scheme |-> "http", Host |-> <<box.IPAddress, box.Port>>, Path |-> Path(op),
     RawQuery |-> Encode(Params(op, a))]

NoRequest == [Scheme |-> "", Host |-> <<"", 0>>, Path |-> "", RawQuery |-> <<>>]

(***************************************************************************)
(* What the device can answer, and json.Unmarshal of its body.             *)
(***************************************************************************)
\* res.StatusCode of the answers considered
StatusOK == 200
HTTPStatuses == {StatusOK, 403}

\* status.msg of the answers considered
Messages == {"", "OK.", "Forbidden.Invalid clientAddr."}

\* the status envelopes a body can embed: any code with any message
Statuses ==
    {[code |-> c, commandResult |-> 0, msg |-> m, query |-> "/q"] :
        c \in HTTPStatuses, m \in Messages}

Location(i) == [clientAddr |-> FormatInt(i - 1), locationName |-> "Room"]

Locations(n) == [i \in 1..n |-> Location(i)]

\* bodies with every field of the operation's struct set to a non-zero value
Samples(op) ==
    CASE op \in {"IsConnected", "GetLocations"} ->
            {[ZeroGetLocationsResponse EXCEPT !.locations = Locations(n)] :
                n \in 0..MaxLocations}
      [] op = "GetSerialNum" -> {[ZeroGetSerialNumResponse EXCEPT !.serialNum = "123456789"]}
      [] op = "GetVersion" ->
            {[accessCardId |-> "0000-0000-0000", receiverId |-> "0000 0000 0000",
              status |-> ZeroStatus, stbSoftwareVersion |-> "0x994",
              systemTime |-> 1500000000, version |-> "1.6"]}
      [] op = "GetMode" -> {[ZeroModeResponse EXCEPT !.mode = 1]}
      [] op = "ProcessKey" ->
            {[ZeroProcessKeyResponse EXCEPT !.hold = "keyPress", !.key = "4"]}
      [] op = "ProcessCommand" ->
            {[command |-> TRUE, param |-> TRUE, prefix |-> TRUE,
              return |-> [data |-> "0A", response |-> 1, value |-> 2],
              status |-> ZeroStatus]}
      [] op \in {"GetProgInfo", "GetTuned"} ->
            {[callsign |-> "CBS", date |-> "20170101", duration |-> 3600,
              episodeTitle |-> "Pilot", isOffAir |-> TRUE, isPclocked |-> 1,
              isPpv |-> TRUE, isRecording |-> TRUE, isVod |-> TRUE, major |-> 4,
              minor |-> 65535, offset |-> 10, programId |-> "P1", rating |-> "TV-G",
              startTime |-> 1500000000, stationId |-> 77, status |-> ZeroStatus,
              title |-> "Let's Make a Deal"]}
      [] op = "TuneToChannel" -> {ZeroTuneResponse}

Fields(op) == DOMAIN ZeroTarget(op)

\* A body is either not JSON at all (valid = FALSE: empty, truncated, garbage,
\* unreadable) or a JSON object: doc holds its values, present the members it
\* has, mistyped the members whose JSON type does not fit the struct field.
Garbage(op) ==
    [valid |-> FALSE, doc |-> ZeroTarget(op), present |-> {}, mistyped |-> {}]

Bodies(op) ==
    {Garbage(op)} \cup
    {[valid |-> TRUE, doc |-> [d EXCEPT !.status = st], present |-> Fields(op),
      mistyped |-> mt] :
        d \in Samples(op), st \in Statuses, mt \in {{}, Fields(op) \ {"status"}}} \cup
    {[valid |-> TRUE, doc |-> [ZeroTarget(op) EXCEPT !.status = st],
      present |-> {"status"}, mistyped |-> {}] : st \in Statuses} \cup
    {[valid |-> TRUE, doc |-> d, present |-> Fields(op) \ {"status"},
      mistyped |-> {}] : d \in Samples(op)}

\* why http.Get can fail
Causes == {"dial tcp: connection refused", "i/o timeout"}

NoResponse ==
    [kind |-> "none", cause |-> "", StatusCode |-> 0, Body |-> Garbage("TuneToChannel")]

\* the outcomes of http.Get for a call of op
Responses(op) ==
    {[kind |-> "transport", cause |-> x, StatusCode |-> 0, Body |-> Garbage(op)] :
        x \in Causes} \cup
    {[kind |-> "http", cause |-> "", StatusCode |-> sc, Body |-> b] :
        sc \in HTTPStatuses, b \in Bodies(op)}

\* json.Unmarshal(body, targetStruct): nothing is stored when the body is not
\* JSON; otherwise every member that fits is stored, members of the wrong type
\* are skipped, absent ones leave the field as it was.  err is the error
\* Unmarshal returns.
Unmarshal(body, t) ==
    IF ~body.valid THEN [target |-> t, err |-> "SyntaxError"]
    ELSE [target |-> [f \in DOMAIN t |->
                        IF f \in body.present \ body.mistyped THEN body.doc[f]
                        ELSE t[f]],
          err |-> IF body.mistyped \cap DOMAIN t # {} THEN "UnmarshalTypeError"
                  ELSE "nil"]

(***************************************************************************)
(* request, from the return of http.Get on.                                *)
(***************************************************************************)
\* request that inspects the envelope itself and fails on a non-empty msg
requestInspectingEnvelope(res, t) ==
    IF res.kind # "http" THEN [err |-> TransportErr(res.cause), target |-> t]
    ELSE LET got == Unmarshal(res.Body, t).target
         IN  [err |-> IF res.StatusCode # StatusOK THEN StatusErr(res.StatusCode)
                      ELSE IF got.status.msg # "" THEN MessageErr(got.status.msg)
                      ELSE NilErr,
              target |-> got]

\* err and *targetStruct when request returns, given what http.Get gave
request(res, t) ==
    IF res.kind # "http" THEN [err |-> TransportErr(res.cause), target |-> t]
    ELSE [err |-> IF res.StatusCode # StatusOK THEN StatusErr(res.StatusCode)
                  ELSE NilErr,
          target |-> Unmarshal(res.Body, t).target]

\* request that sends a failed GET a second time
ResendOnError(err, sent) == err # NilErr /\ sent < 2

\* request has no loop: whatever err is, it returns to its caller
Resend(err, sent) == FALSE

(***************************************************************************)
(* The capability operations, from the return of request on: the value and *)
(* the error each returns, given request's err and the struct it filled.   *)
(***************************************************************************)
\* the message is never looked at: request's err is returned as it is
SurfaceNothing(err, t) == err

\* the message replaces request's err even when it is empty
SurfaceAlways(err, t) == MessageErr(t.status.msg)

\* if res.Status.Message != "" { err = errors.New(res.Status.Message) }
Surface(err, t) == IF t.status.msg # "" THEN MessageErr(t.status.msg) ELSE err

GetLocations(err, locationsRes) ==
    IF err # NilErr THEN [value |-> <<>>, err |-> Surface(err, locationsRes)]
    ELSE [value |-> locationsRes.locations, err |-> NilErr]

\* IsConnected that answers false and drops the error
IsConnectedSwallowing(got) ==
    IF got.err = NilErr /\ Len(got.value) > 0 THEN [value |-> TRUE, err |-> NilErr]
    ELSE [value |-> FALSE, err |-> NilErr]

\* locations, err is what GetLocations returned
IsConnected(got) ==
    IF got.err # NilErr THEN [value |-> FALSE, err |-> got.err]
    ELSE IF Len(got.value) > 0 THEN [value |-> TRUE, err |-> NilErr]
    ELSE [value |-> FALSE, err |-> NilErr]

GetSerialNum(err, serialNumResponse) ==
    IF err # NilErr THEN [value |-> "", err |-> Surface(err, serialNumResponse)]
    ELSE [value |-> serialNumResponse.serialNum, err |-> NilErr]

GetVersion(err, versionResponse) ==
    IF err # NilErr THEN [value |-> ZeroVersion, err |-> Surface(err, versionResponse)]
    ELSE [value |-> [AccessCardID       |-> versionResponse.accessCardId,
                     ReceiverID         |-> versionResponse.receiverId,
                     STBSoftwareVersion |-> versionResponse.stbSoftwareVersion,
                     SystemTime         |-> versionResponse.systemTime,
                     Version            |-> versionResponse.version],
          err |-> NilErr]

GetMode(err, modeResponse) ==
    IF err # NilErr THEN [value |-> 0, err |-> Surface(err, modeResponse)]
    ELSE [value |-> modeResponse.mode, err |-> NilErr]

\* ProcessKey and TuneToChannel return only an error: value is the empty tuple
ProcessKey(err, processKeyResponse) ==
    IF err # NilErr THEN [value |-> <<>>, err |-> Surface(err, processKeyResponse)]
    ELSE [value |-> <<>>, err |-> NilErr]

ProcessCommand(err, response) ==
    IF err # NilErr THEN [value |-> ZeroCommandResponse, err |-> Surface(err, response)]
    ELSE [value |-> [Command |-> response.command, Param |-> response.param,
                     Prefix |-> response.prefix, Return |-> response.return],
          err |-> NilErr]

GetProgInfo(err, response) ==
    IF err # NilErr THEN [value |-> response, err |-> Surface(err, response)]
    ELSE [value |-> response, err |-> NilErr]

GetTuned(err, response) ==
    IF err # NilErr THEN [value |-> response, err |-> Surface(err, response)]
    ELSE [value |-> response, err |-> NilErr]

TuneToChannel(err, response) ==
    IF err # NilErr THEN [value |-> <<>>, err |-> Surface(err, response)]
    ELSE [value |-> <<>>, err |-> NilErr]

\* what the operation op returns to its caller
Returned(op, err, t) ==
    CASE op = "IsConnected"    -> IsConnected(GetLocations(err, t))
      [] op = "GetLocations"   -> GetLocations(err, t)
      [] op = "GetSerialNum"   -> GetSerialNum(err, t)
      [] op = "GetVersion"     -> GetVersion(err, t)
      [] op = "GetMode"        -> GetMode(err, t)
      [] op = "ProcessKey"     -> ProcessKey(err, t)
      [] op = "ProcessCommand" -> ProcessCommand(err, t)
      [] op = "GetProgInfo"    -> GetProgInfo(err, t)
      [] op = "GetTuned"       -> GetTuned(err, t)
      [] op = "TuneToChannel"  -> TuneToChannel(err, t)

\* the zero value of what op returns
ZeroValue(op) ==
    CASE op = "IsConnected"    -> FALSE
      [] op = "GetLocations"   -> <<>>
      [] op = "GetSerialNum"   -> ""
      [] op = "GetVersion"     -> ZeroVersion
      [] op = "GetMode"        -> 0
      [] op = "ProcessKey"     -> <<>>
      [] op = "ProcessCommand" -> ZeroCommandResponse
      [] op = "GetProgInfo"    -> ZeroProgramStatusResponse
      [] op = "GetTuned"       -> ZeroProgramStatusResponse
      [] op = "TuneToChannel"  -> <<>>

(***************************************************************************)
(* The arguments callers pass.                                             *)
(***************************************************************************)
ZeroArgs ==
    [clientAddr |-> <<>>, key |-> <<>>, hold |-> <<>>, cmd |-> <<>>,
     major |-> 0, minor |-> 0, time |-> 0, channel |-> <<>>]

\* hold: "" or keyPress, abbreviated to its first byte
HoldArgs == {<<>>, <<107>>}

\* the selectors tried together with another string argument
Selectors == {<<>>} \cup StrsOfLen(1)

Args(op) ==
    CASE op = "ProcessKey" ->
            {[ZeroArgs EXCEPT !.key = k, !.hold = h, !.clientAddr = ca] :
                k \in ArgStrings, h \in HoldArgs, ca \in Selectors}
      [] op = "ProcessCommand" ->
            {[ZeroArgs EXCEPT !.cmd = x, !.clientAddr = ca] :
                x \in ArgStrings, ca \in Selectors}
      [] op = "GetProgInfo" ->
            {[ZeroArgs EXCEPT !.major = mj, !.minor = mn, !.time = tm, !.clientAddr = ca] :
                mj \in {0, 4, -1}, mn \in {0, 65535}, tm \in {0, 1500000000},
                ca \in Selectors}
      [] op = "TuneToChannel" ->
            {[ZeroArgs EXCEPT !.channel = ch, !.clientAddr = ca] :
                ch \in ArgStrings, ca \in Selectors}
      [] OTHER -> {[ZeroArgs EXCEPT !.clientAddr = ca] : ca \in ArgStrings}

(***************************************************************************)
(* State.                                                                  *)
(***************************************************************************)
Callers == 1..NumCallers

VARIABLES
    stb,      \* the SetTopBox every caller uses
    pc,       \* where each caller is in its call
    op,       \* the operation each caller called
    args,     \* with which arguments
    req,      \* requestURL of the call's request
    resp,     \* what http.Get returned to the call
    target,   \* the response struct the operation declared (targetStruct)
    reqErr,   \* the err request returned
    result,   \* the value the operation returned
    err,      \* the error the operation returned
    gets,     \* HTTP GETs issued for the call
    reports   \* times the call returned to its caller

vars == <<stb, pc, op, args, req, resp, target, reqErr, result, err, gets, reports>>

Init ==
    /\ stb = NewSetTopBox("127.0.0.1")
    /\ pc = [c \in Callers |-> "idle"]
    /\ op = [c \in Callers |-> "none"]
    /\ args = [c \in Callers |-> ZeroArgs]
    /\ req = [c \in Callers |-> NoRequest]
    /\ resp = [c \in Callers |-> NoResponse]
    /\ target = [c \in Callers |-> ZeroTuneResponse]
    /\ reqErr = [c \in Callers |-> NilErr]
    /\ result = [c \in Callers |-> <<>>]
    /\ err = [c \in Callers |-> NilErr]
    /\ gets = [c \in Callers |-> 0]
    /\ reports = [c \in Callers |-> 0]

\* one res variable shared by every call
SharedResponse(c) == resp[1]

\* res of the call's own http.Get
ResponseOf(c) == resp[c]

\* Caller c calls operation o with arguments a: the operation declares its
\* response struct and its params, and request builds the URL.
Call(c, o, a) ==
    /\ pc[c] = "idle"
    /\ op' = [op EXCEPT ![c] = o]
    /\ args' = [args EXCEPT ![c] = a]
    /\ target' = [target EXCEPT ![c] = ZeroTarget(o)]
    /\ req' = [req EXCEPT ![c] = RequestURL(stb, o, a)]
    /\ resp' = [resp EXCEPT ![c] = NoResponse]
    /\ reqErr' = [reqErr EXCEPT ![c] = NilErr]
    /\ result' = [result EXCEPT ![c] = ZeroValue(o)]
    /\ err' = [err EXCEPT ![c] = NilErr]
    /\ gets' = [gets EXCEPT ![c] = 0]
    /\ reports' = [reports EXCEPT ![c] = 0]
    /\ pc' = [pc EXCEPT ![c] = "called"]
    /\ UNCHANGED stb

\* http.Get(requestURL.String()) is issued
Send(c) ==
    /\ pc[c] = "called"
    /\ gets' = [gets EXCEPT ![c] = @ + 1]
    /\ pc' = [pc EXCEPT ![c] = "waiting"]
    /\ UNCHANGED <<stb, op, args, req, resp, target, reqErr, result, err, reports>>

\* http.Get returns r: the device's answer, or a transport failure
Answer(c, r) ==
    /\ pc[c] = "waiting"
    /\ resp' = [resp EXCEPT ![c] = r]
    /\ pc' = [pc EXCEPT ![c] = "answered"]
    /\ UNCHANGED <<stb, op, args, req, target, reqErr, result, err, gets, reports>>

\* the rest of request: the status check, the decoding, the return
RequestReturn(c) ==
    /\ pc[c] = "answered"
    /\ LET out == request(ResponseOf(c), target[c])
       IN  /\ target' = [target EXCEPT ![c] = out.target]
           /\ reqErr' = [reqErr EXCEPT ![c] = out.err]
           /\ pc' = [pc EXCEPT ![c] =
                        IF Resend(out.err, gets[c]) THEN "called" ELSE "returned"]
    /\ UNCHANGED <<stb, op, args, req, resp, result, err, gets, reports>>

\* the rest of the operation: it returns its value and error to the caller
Return(c) ==
    /\ pc[c] = "returned"
    /\ LET out == Returned(op[c], reqErr[c], target[c])
       IN  /\ result' = [result EXCEPT ![c] = out.value]
           /\ err' = [err EXCEPT ![c] = out.err]
    /\ reports' = [reports EXCEPT ![c] = @ + 1]
    /\ pc' = [pc EXCEPT ![c] = "done"]
    /\ UNCHANGED <<stb, op, args, req, resp, target, reqErr, gets>>

\* The caller has its value and error; the call's locals are gone and the
\* caller is free to call again.
Finish(c) ==
    /\ pc[c] = "done"
    /\ pc' = [pc EXCEPT ![c] = "idle"]
    /\ op' = [op EXCEPT ![c] = "none"]
    /\ args' = [args EXCEPT ![c] = ZeroArgs]
    /\ req' = [req EXCEPT ![c] = NoRequest]
    /\ resp' = [resp EXCEPT ![c] = NoResponse]
    /\ target' = [target EXCEPT ![c] = ZeroTuneResponse]
    /\ reqErr' = [reqErr EXCEPT ![c] = NilErr]
    /\ result' = [result EXCEPT ![c] = <<>>]
    /\ err' = [err EXCEPT ![c] = NilErr]
    /\ gets' = [gets EXCEPT ![c] = 0]
    /\ reports' = [reports EXCEPT ![c] = 0]
    /\ UNCHANGED stb

\* One caller, every argument and every answer of the sets above.
Next ==
    \/ \E o \in Ops : \E a \in Args(o) : Call(1, o, a)
    \/ Send(1)
    \/ pc[1] = "waiting" /\ \E r \in Responses(op[1]) : Answer(1, r)
    \/ RequestReturn(1)
    \/ Return(1)
    \/ Finish(1)

Spec == Init /\ [][Next]_vars

(***************************************************************************)
(* Several callers at once on the one SetTopBox: each goroutine runs the   *)
(* steps of its own call, interleaved with the others' in any order.       *)
(***************************************************************************)
\* the operations called concurrently: one of each kind of result
ConcOps == {"IsConnected", "GetSerialNum", "GetTuned", "TuneToChannel"}

ConcArgs(o) == [ZeroArgs EXCEPT !.clientAddr = <<48>>, !.channel = <<52>>]

\* a transport failure, a 200 with every field set and msg "OK.", and a 403
\* with every field set and a message
ConcResponses(o) ==
    {r \in Responses(o) :
        \/ r.kind = "transport" /\ r.cause = "i/o timeout"
        \/ /\ r.kind = "http"
           /\ r.Body.valid
           /\ r.Body.present = Fields(o)
           /\ r.Body.mistyped = {}
           /\ r.Body.doc.status.code = r.StatusCode
           /\ r.Body.doc.status.msg =
                IF r.StatusCode = StatusOK THEN "OK." ELSE "Forbidden.Invalid clientAddr."
           /\ o = "IsConnected" => Len(r.Body.doc.locations) = 1}

NextConc ==
    \E c \in Callers :
        \/ \E o \in ConcOps : Call(c, o, ConcArgs(o))
        \/ Send(c)
        \/ pc[c] = "waiting" /\ \E r \in ConcResponses(op[c]) : Answer(c, r)
        \/ RequestReturn(c)
        \/ Return(c)
        \/ Finish(c)

SpecConc == Init /\ [][NextConc]_vars

(***************************************************************************)
(* Properties.                                                             *)
(***************************************************************************)
\* the call of c has returned to its caller
Done(c) == pc[c] = "done"

\* the device answered c's request with this status and some body
Answered(c) == pc[c] \in {"answered", "returned", "done"} /\ resp[c].kind = "http"

\* the body of c's answer is JSON that fits the struct of c's operation
WellFormed(c) == resp[c].Body.valid /\ resp[c].Body.mistyped = {}

\* status.msg as the body of c's answer gives it ("" when it gives none)
BodyMsg(c) ==
    LET b == resp[c].Body
    IN  IF b.valid /\ "status" \in b.present \ b.mistyped THEN b.doc.status.msg ELSE ""

\* C1: a 200 answer with a well-formed JSON body whose status.msg is not
\* empty makes the operation return an error carrying exactly that message,
\* whatever status.code is.
C1_DeviceErrorOn200 ==
    \A c \in Callers :
        (Done(c) /\ Answered(c) /\ resp[c].StatusCode = StatusOK
            /\ WellFormed(c) /\ BodyMsg(c) # "")
        => err[c] = MessageErr(BodyMsg(c))

\* C1 as amended: a 200 answer with a well-formed JSON body makes the
\* operation return a nil error and the decoded value, whether status.msg is
\* empty or not.
C1_SuccessOn200 ==
    \A c \in Callers :
        (Done(c) /\ Answered(c) /\ resp[c].StatusCode = StatusOK /\ WellFormed(c))
        => /\ err[c] = NilErr
           /\ LET b == resp[c].Body
              IN  /\ (op[c] = "GetSerialNum" /\ "serialNum" \in b.present)
                        => result[c] = b.doc.serialNum
                  /\ (op[c] = "GetMode" /\ "mode" \in b.present)
                        => result[c] = b.doc.mode
                  /\ (op[c] = "GetLocations" /\ "locations" \in b.present)
                        => result[c] = b.doc.locations
                  /\ (op[c] = "GetTuned" /\ "title" \in b.present)
                        => result[c].title = b.doc.title

C1_Witness ==
    \E c \in Callers :
        /\ Done(c) /\ Answered(c) /\ resp[c].StatusCode = StatusOK /\ WellFormed(c)
        /\ BodyMsg(c) = "Forbidden.Invalid clientAddr."
        /\ op[c] = "GetSerialNum"
        /\ result[c] = "123456789"

\* C2: an answer whose status is not 200 makes the operation fail with the
\* HTTP-status error carrying the code, even when the body is JSON with a
\* status.msg; the body is not decoded.
C2_StatusErrorOnNon200 ==
    \A c \in Callers :
        (Done(c) /\ Answered(c) /\ resp[c].StatusCode # StatusOK)
        => /\ err[c] = StatusErr(resp[c].StatusCode)
           /\ target[c] = ZeroTarget(op[c])

\* C2 as amended: an answer whose status is not 200 makes the operation fail;
\* the body is decoded all the same, and the error is the body's status.msg
\* when that is not empty, and the HTTP-status error carrying the code
\* otherwise.
C2_MessageOrStatusErrorOnNon200 ==
    \A c \in Callers :
        (Done(c) /\ Answered(c) /\ resp[c].StatusCode # StatusOK)
        => /\ err[c] # NilErr
           /\ err[c] = IF BodyMsg(c) # "" THEN MessageErr(BodyMsg(c))
                       ELSE StatusErr(resp[c].StatusCode)
           /\ target[c] = Unmarshal(resp[c].Body, ZeroTarget(op[c])).target

C2_Witness ==
    \E c \in Callers :
        /\ Done(c) /\ Answered(c) /\ resp[c].StatusCode = 403
        /\ BodyMsg(c) = "Forbidden.Invalid clientAddr."
        /\ err[c].kind = "message"
        /\ target[c] # ZeroTarget(op[c])

\* C3: a 200 answer whose body does not decode into the expected struct
\* (not JSON at all, or JSON of the wrong shape) makes the operation return
\* an error, never a nil error.
C3_DecodeErrorOn200 ==
    \A c \in Callers :
        (Done(c) /\ Answered(c) /\ resp[c].StatusCode = StatusOK
            /\ Unmarshal(resp[c].Body, ZeroTarget(op[c])).err # "nil")
        => err[c] # NilErr

\* C4: IsConnected returns (true, nil) exactly when GetLocations returns a
\* nil error and at least one location, (false, nil) when it returns a nil
\* error and no location, and false with GetLocations' own error when it
\* fails.
C4_IsConnected ==
    \A c \in Callers :
        (Done(c) /\ op[c] = "IsConnected")
        => LET got == GetLocations(reqErr[c], target[c])
           IN  /\ (result[c] = TRUE /\ err[c] = NilErr)
                    <=> (got.err = NilErr /\ Len(got.value) >= 1)
               /\ (got.err = NilErr /\ Len(got.value) = 0)
                    => (result[c] = FALSE /\ err[c] = NilErr)
               /\ got.err # NilErr
                    => (result[c] = FALSE /\ err[c] = got.err /\ err[c] # NilErr)

C4_Witness ==
    \E c \in Callers :
        /\ Done(c) /\ op[c] = "IsConnected"
        /\ resp[c].kind = "transport"
        /\ result[c] = FALSE
        /\ err[c] = TransportErr(resp[c].cause)

\* C5: when http.Get fails, the operation fails at once: nothing is decoded
\* into the response struct, no value is returned, and the error is the very
\* error http.Get returned.
C5_TransportError ==
    \A c \in Callers :
        (Done(c) /\ resp[c].kind = "transport")
        => /\ err[c] = TransportErr(resp[c].cause)
           /\ reqErr[c] = TransportErr(resp[c].cause)
           /\ target[c] = ZeroTarget(op[c])
           /\ result[c] = ZeroValue(op[c])
           /\ gets[c] = 1

C5_Witness ==
    \E c \in Callers :
        /\ Done(c) /\ resp[c].kind = "transport" /\ op[c] = "GetMode"
        /\ err[c] = TransportErr("i/o timeout")

\* the <<name, value>> pairs the request of c's call carries, parsed back
Sent(c) == ParseQuery(req[c].RawQuery)

\* the values sent under parameter name n
SentUnder(c, n) == {p[2] : p \in {q \in Sent(c) : q[1] = KeyBytes(n)}}

\* The parameter values the caller of op supplied with arguments a, by
\* parameter name; <<>> is a value that is empty or absent (time 0).
Supplied(o, a) ==
    CASE o \in {"GetSerialNum", "GetMode", "GetTuned"} ->
            [clientAddr |-> a.clientAddr]
      [] o = "ProcessKey" ->
            [key |-> a.key, hold |-> a.hold, clientAddr |-> a.clientAddr]
      [] o = "ProcessCommand" -> [cmd |-> a.cmd]
      [] o = "GetProgInfo" ->
            [major |-> FormatInt(a.major), minor |-> FormatInt(a.minor),
             time |-> IF a.time = 0 THEN <<>> ELSE FormatInt(a.time),
             clientAddr |-> a.clientAddr]
      [] o = "TuneToChannel" -> [major |-> a.channel, clientAddr |-> a.clientAddr]
      [] OTHER -> NoParams

\* C6: the query string, parsed back, has every parameter supplied non-empty
\* with exactly its value, and no parameter whose value was empty or absent:
\* nothing is sent with an empty value.
C6_QueryRoundTrip ==
    \A c \in Callers :
        pc[c] # "idle" =>
            LET sup == Supplied(op[c], args[c])
            IN  /\ \A n \in DOMAIN sup :
                        SentUnder(c, n) = IF sup[n] # <<>> THEN {sup[n]} ELSE {}
                /\ \A p \in Sent(c) : p[2] # <<>>
                /\ {p[1] : p \in Sent(c)} \subseteq {KeyBytes(n) : n \in DOMAIN sup}

\* the parameters the operations send whatever their value
AlwaysSent == {"key", "cmd", "major", "minor"}

\* C6 as amended: the query string, parsed back, has every parameter
\* supplied non-empty with exactly its value; clientAddr, hold and time are
\* left out when empty or 0; key, cmd, major and minor are sent whatever
\* their value, with an empty value when the argument is the empty string.
C6_QueryRoundTripOptional ==
    \A c \in Callers :
        pc[c] # "idle" =>
            LET sup == Supplied(op[c], args[c])
            IN  Sent(c) = {<<KeyBytes(n), sup[n]>> :
                            n \in {x \in DOMAIN sup : x \in AlwaysSent \/ sup[x] # <<>>}}

C6_Witness ==
    \E c \in Callers :
        /\ pc[c] # "idle" /\ op[c] = "ProcessKey"
        /\ args[c].key = <<38>> /\ args[c].hold # <<>> /\ args[c].clientAddr = <<>>
        /\ Sent(c) = {<<KeyBytes("key"), <<38>>>>, <<KeyBytes("hold"), args[c].hold>>}

\* C7: whenever an operation returns an error, the value it returns with it
\* is the zero value: nothing decoded from the body comes with an error.
C7_ZeroValueWithError ==
    \A c \in Callers : (Done(c) /\ err[c] # NilErr) => result[c] = ZeroValue(op[c])

\* C8: a call issues exactly one HTTP GET whatever its outcome, never sends
\* it again, and returns to its caller exactly once.
C8_OneGetPerCall ==
    \A c \in Callers :
        /\ gets[c] <= 1
        /\ reports[c] <= 1
        /\ pc[c] \in {"waiting", "answered", "returned", "done"} => gets[c] = 1
        /\ Done(c) <=> reports[c] = 1

C8_Witness ==
    \E c \in Callers :
        /\ Done(c) /\ reqErr[c] # NilErr /\ op[c] = "IsConnected"
        /\ gets[c] = 1 /\ reports[c] = 1

\* the request of c's call carries the selector the caller wants, verbatim,
\* and carries no clientAddr when the caller wants none
CarriesSelector(c) ==
    SentUnder(c, "clientAddr") =
        IF args[c].clientAddr # <<>> THEN {args[c].clientAddr} ELSE {}

\* C9: every operation takes an optional selector: a non-empty one is sent
\* verbatim as clientAddr, an omitted one sends no clientAddr; this holds
\* for all ten operations.
C9_SelectorEverywhere ==
    \A c \in Callers : pc[c] # "idle" => CarriesSelector(c)

\* C9 as amended: GetSerialNum, GetMode, ProcessKey, GetProgInfo, GetTuned
\* and TuneToChannel take an optional selector: a non-empty one is sent
\* verbatim as clientAddr, an empty one sends no clientAddr.  IsConnected,
\* GetLocations, GetVersion and ProcessCommand take no selector and never
\* send clientAddr.
C9_SelectorWhereTaken ==
    \A c \in Callers :
        pc[c] # "idle" =>
            IF op[c] \in SelectorOps THEN CarriesSelector(c)
            ELSE SentUnder(c, "clientAddr") = {}

C9_Witness ==
    \E c \in Callers :
        /\ pc[c] # "idle" /\ op[c] = "GetTuned" /\ args[c].clientAddr = <<38>>
        /\ SentUnder(c, "clientAddr") = {<<38>>}

\* what c's call returns when nothing but the answer to its own request
\* decides it
OwnOutcome(c) ==
    LET out == request(resp[c], ZeroTarget(op[c]))
    IN  Returned(op[c], out.err, out.target)

\* everything that belongs to the call of c
CallState(c) ==
    <<pc[c], op[c], args[c], req[c], resp[c], target[c], reqErr[c], result[c],
      err[c], gets[c], reports[c]>>

\* C10: under any interleaving of concurrent calls, no step changes the
\* client's address or port, a step of one call leaves every other call's
\* request, response struct and result alone, and what a call returns is
\* decided by the answer to its own request alone.
C10_NoInterference ==
    /\ [](\A c \in Callers :
            Done(c) => (result[c] = OwnOutcome(c).value /\ err[c] = OwnOutcome(c).err))
    /\ [][stb' = stb]_vars
    /\ [][\A c, d \in Callers :
            (c # d /\ CallState(c)' # CallState(c)) => CallState(d)' = CallState(d)]_vars
    /\ [](\A c \in Callers :
            pc[c] # "idle" => req[c] = RequestURL(stb, op[c], args[c]))

C10_Witness ==
    \E c, d \in Callers :
        /\ c # d /\ Done(c) /\ Done(d)
        /\ op[c] = op[d]
        /\ resp[c] # resp[d]
        /\ err[c] # err[d]

====
